---- MODULE Spec2Model ----
(***************************************************************************)
(* Model of dudu (src/dudu.go): the orchestrator DUDU, the statter        *)
(* workers, the two sink consumers, the task pool (freeStatTasks), the     *)
(* work queue (statTasks), the completion tracker (wg) and the aggregation *)
(* maps (fileCounts, dirCounts).                                           *)
(*                                                                         *)
(* A path is a sequence of one-character strings, so that path.Clean,      *)
(* path.Dir, path.Join and strings.HasPrefix are computed on the text of   *)
(* the path, as the program computes them.                                 *)
(***************************************************************************)
EXTENDS Integers, Sequences, FiniteSets, TLC

(* ------------------------------ bounds --------------------------------- *)

\* --x-parallel-tasks=N is drawn from 1..MaxParallelTasks
MaxParallelTasks == 2

\* the caller supplies at most MaxItems paths
MaxItems == 2

\* the paths the caller supplies make at most MaxTasks tasks
MaxTasks == 5

\* the capacity of msgs and errs in the runs that fill a sink channel
SinkBuffer == 1

(* ------------------------- program constants --------------------------- *)

\* parseArgs: blockSize default
DefaultBlockSize == 1024

\* parseArgs: readdirBuffer
ReaddirBuffer == 1000

\* parseArgs: messageBuffer
MessageBuffer == 1000

\* parseArgs: errBuffer
ErrBuffer == 1000

(* ------------------------------ paths ---------------------------------- *)

Slash == "/"
Dot == "."

\* the path "."
DotPath == <<".">>

\* the path "/"
RootPath == <<"/">>

\* the path component ".."
DotDot == <<".", ".">>

\* F(x), computed on the value of x: x is evaluated once and F works on the
\* result
OnValue(F(_), x) == CHOOSE out \in {F(v) : v \in {x}} : TRUE

\* index of the first "/" of p at or after i, 0 when there is none
RECURSIVE FirstSlash(_, _)
FirstSlash(p, i) ==
    IF i > Len(p) THEN 0
    ELSE IF p[i] = Slash THEN i
    ELSE FirstSlash(p, i + 1)

\* strings.LastIndex(p, "/") + 1: index of the last "/" of p, 0 when none
RECURSIVE LastSlash(_, _)
LastSlash(p, i) ==
    IF i = 0 THEN 0
    ELSE IF p[i] = Slash THEN i
    ELSE LastSlash(p, i - 1)

\* the components of p between its slashes (empty components included)
RECURSIVE Components(_)
Components(p) ==
    OnValue(LAMBDA q :
        OnValue(LAMBDA i :
            IF i = 0 THEN <<q>>
            ELSE <<SubSeq(q, 1, i - 1)>>
                 \o Components(SubSeq(q, i + 1, Len(q))),
            FirstSlash(q, 1)),
        p)

\* path.Clean's pass over the components: "" and "." are dropped, ".."
\* removes the component before it (or is kept, when the path is not rooted
\* and there is nothing to remove)
RECURSIVE CleanStack(_, _, _)
CleanStack(comps, stack, rooted) ==
    OnValue(LAMBDA cs : OnValue(LAMBDA st :
        IF cs = <<>> THEN st
        ELSE IF Head(cs) = <<>> \/ Head(cs) = DotPath
        THEN CleanStack(Tail(cs), st, rooted)
        ELSE IF Head(cs) = DotDot
        THEN IF st # <<>> /\ st[Len(st)] # DotDot
             THEN CleanStack(Tail(cs), SubSeq(st, 1, Len(st) - 1), rooted)
             ELSE IF rooted
             THEN CleanStack(Tail(cs), st, rooted)
             ELSE CleanStack(Tail(cs), Append(st, Head(cs)), rooted)
        ELSE CleanStack(Tail(cs), Append(st, Head(cs)), rooted),
        stack), comps)

\* the components joined with "/"
RECURSIVE JoinComponents(_)
JoinComponents(stack) ==
    OnValue(LAMBDA st :
        IF st = <<>> THEN <<>>
        ELSE IF Len(st) = 1 THEN st[1]
        ELSE st[1] \o <<Slash>> \o JoinComponents(Tail(st)),
        stack)

\* path.Clean of the string q
CleanOf(q) ==
    IF q = <<>> THEN DotPath
    ELSE OnValue(LAMBDA body :
            IF q[1] = Slash THEN <<Slash>> \o body
            ELSE IF body = <<>> THEN DotPath
            ELSE body,
            JoinComponents(CleanStack(Components(q), <<>>, q[1] = Slash)))

\* path.Clean(p)
Clean(p) == OnValue(CleanOf, p)

\* path.Dir(p): Clean of p up to and including its last slash
Dir(p) ==
    OnValue(LAMBDA q : CleanOf(SubSeq(q, 1, LastSlash(q, Len(q)))), p)

\* path.Join(dir, name): the non-empty elements joined with "/", cleaned
Join(dir, name) ==
    OnValue(LAMBDA d : OnValue(LAMBDA n :
        IF d = <<>> /\ n = <<>> THEN <<>>
        ELSE IF d = <<>> THEN CleanOf(n)
        ELSE IF n = <<>> THEN CleanOf(d)
        ELSE CleanOf(d \o <<Slash>> \o n),
        name), dir)

\* strings.HasPrefix(s, prefix)
HasPrefix(s, prefix) ==
    Len(s) >= Len(prefix) /\ SubSeq(s, 1, Len(prefix)) = prefix

\* the byte of a character (only the characters the model's paths use)
Byte(c) ==
    CASE c = "." -> 46
      [] c = "/" -> 47
      [] c = "a" -> 97
      [] c = "d" -> 100
      [] c = "f" -> 102
      [] c = "g" -> 103
      [] c = "h" -> 104
      [] c = "x" -> 120

\* Go's s < t on strings: bytewise lexicographic order
RECURSIVE StringLess(_, _)
StringLess(s, t) ==
    OnValue(LAMBDA u : OnValue(LAMBDA v :
        IF v = <<>> THEN FALSE
        ELSE IF u = <<>> THEN TRUE
        ELSE IF Byte(u[1]) < Byte(v[1]) THEN TRUE
        ELSE IF Byte(u[1]) > Byte(v[1]) THEN FALSE
        ELSE StringLess(Tail(u), Tail(v)),
        t), s)

\* sort.Sort(sort.Reverse(sort.StringSlice(items))) of a set of distinct strings
RECURSIVE SortReverse(_)
SortReverse(S) ==
    OnValue(LAMBDA T :
        IF T = {} THEN <<>>
        ELSE OnValue(LAMBDA m : <<m>> \o SortReverse(T \ {m}),
                     CHOOSE x \in T : \A y \in T \ {x} : StringLess(y, x)),
        S)

(* --------------------------- the filesystem ---------------------------- *)

pA == <<"a">>
pASlash == <<"a", "/">>
pAF == <<"a", "/", "f">>
pAD == <<"a", "/", "d">>
pADH == <<"a", "/", "d", "/", "h">>
pAG == <<"a", "/", "g">>
pADSlash == <<"a", "/", "d", "/">>
pX == <<"x">>

\* The tree under the working directory, keyed by clean path: the size and
\* kind lstat reports, and the names Readdir returns, in its order.
\*   .  (32)  a (16)  a/f 1  a/d (4)  a/d/h 8  a/g 2
FS ==
    (DotPath :> [size |-> 32, isDir |-> TRUE, names |-> << <<"a">> >>]) @@
    (pA :> [size |-> 16, isDir |-> TRUE, names |-> << <<"f">>, <<"d">>, <<"g">> >>]) @@
    (pAF :> [size |-> 1, isDir |-> FALSE, names |-> <<>>]) @@
    (pAD :> [size |-> 4, isDir |-> TRUE, names |-> << <<"h">> >>]) @@
    (pADH :> [size |-> 8, isDir |-> FALSE, names |-> <<>>]) @@
    (pAG :> [size |-> 2, isDir |-> FALSE, names |-> <<>>])

\* a nil os.FileInfo
NoFi == [size |-> 0, isDir |-> FALSE, ok |-> FALSE]

\* os.Lstat(p): the FileInfo of the entry p names, or an error (ok = FALSE)
Lstat(p) ==
    IF Clean(p) \in DOMAIN FS
    THEN [size |-> FS[Clean(p)].size, isDir |-> FS[Clean(p)].isDir, ok |-> TRUE]
    ELSE NoFi

\* the paths a caller passes in the model
ItemChoices == {pA, pAD, pADSlash, pAF, pX}

\* the entries a traversal from p visits: the entry p names and all below it
Subtree(p) ==
    {q \in DOMAIN FS :
        Clean(p) \in DOMAIN FS
        /\ (q = Clean(p) \/ Clean(p) = DotPath
            \/ HasPrefix(q, Clean(p) \o <<Slash>>))}

\* the number of entries the traversals from the paths of ps visit together
RECURSIVE Work(_)
Work(ps) ==
    IF ps = <<>> THEN 0 ELSE Cardinality(Subtree(Head(ps))) + Work(Tail(ps))

\* the argument lists: up to MaxItems paths that make at most MaxTasks tasks
ItemLists ==
    {ps \in UNION {[1..n -> ItemChoices] : n \in 0..MaxItems} :
        Work(ps) <= MaxTasks}

\* what the filesystem refuses during the run: opening a/d fails, or
\* reading a fails after its first entry, or nothing fails
Faults ==
    { [open |-> {}, read |-> {}],
      [open |-> {pAD}, read |-> {}],
      [open |-> {}, read |-> {pA}] }

\* a failing Readdir returns the entries read before the failure: this many
ReadFailsAfter == 1

\* the first n elements of s
Take(s, n) == SubSeq(s, 1, IF n < Len(s) THEN n ELSE Len(s))

\* the elements of s after the first n
Drop(s, n) == SubSeq(s, n + 1, Len(s))

\* f.Readdir(n) on directory dir whose handle has returned pos entries so far,
\* n > 0: up to n further entries with a nil error; nothing and io.EOF at the
\* end; the entries read so far and the error when the read fails.
Readdir(dir, pos, n, flt) ==
    LET all == FS[Clean(dir)].names
        left == Drop(all, pos)
        want == Take(left, n)
    IN  IF Clean(dir) \in flt.read /\ pos + Len(want) >= ReadFailsAfter
        THEN [names |-> Take(left, ReadFailsAfter - pos), err |-> "EIO"]
        ELSE IF want = <<>>
        THEN [names |-> <<>>, err |-> "EOF"]
        ELSE [names |-> want, err |-> "nil"]

(* ------------------------------- state --------------------------------- *)

VARIABLES
    cfg,            \* the config parseArgs built
    items,          \* the paths parseArgs collected
    fault,          \* what the filesystem refuses during this run
    fileCounts,     \* map[string]int64
    dirCounts,      \* map[string]int64
    msgs,           \* the buffer of chan string msgs
    msgsClosed,     \* close(msgs) has run
    msgsDone,       \* close(msgsDone) has run
    errs,           \* the buffer of chan string errs
    errsClosed,     \* close(errs) has run
    errsDone,       \* close(errsDone) has run
    errCount,       \* uint32, incremented by the errs consumer
    wg,             \* the counter of sync.WaitGroup wg
    statTasks,      \* the buffer of chan *statTask statTasks
    freeStatTasks,  \* the buffer of chan *statTask freeStatTasks
    slot,           \* the pooled statTask objects: their fields item and fi
    wpc,            \* each statter's position
    localTasks,     \* each statter's localTasks
    wct,            \* the pooled statTask each statter holds (ct, fct), 0 for none
    witem,          \* each statter's item
    wfi,            \* each statter's fi
    subfis,         \* each statter's entries still to schedule of the last Readdir
    rderr,          \* each statter's err of the last Readdir
    rdpos,          \* how many entries each statter's open directory has returned
    opc,            \* the position of DUDU
    oi,             \* the index of the item DUDU is at
    oct,            \* the pooled statTask DUDU holds (ct), 0 for none
    result,         \* what DUDU returned: nothing yet, nil, or an error and its count
    stdout,         \* the lines DUDU printed after the traversal
    printed,        \* how many lines each consumer printed
    errsSent,       \* history: how many errors were sent on errs
    msgsSent,       \* history: how many messages were sent on msgs
    visits,         \* history: how often each filesystem entry was aggregated
    created,        \* history: how many tasks were registered with wg.Add(1)
    completed,      \* history: how many tasks were signalled with wg.Done()
    touched,        \* history: a statTask was read or written by a non-holder
    panicked        \* the process died of a send on a closed channel

vars == <<cfg, items, fault, fileCounts, dirCounts, msgs, msgsClosed, msgsDone,
          errs, errsClosed, errsDone, errCount, wg, statTasks, freeStatTasks,
          slot, wpc, localTasks, wct, witem, wfi, subfis, rderr, rdpos,
          opc, oi, oct, result, stdout, printed, errsSent, msgsSent, visits,
          created,
          completed, touched, panicked>>

\* the variables of the sinks
sinkVars == <<msgs, msgsClosed, msgsDone, errs, errsClosed, errsDone, errCount,
              printed, errsSent, msgsSent>>

\* the variables of DUDU's own frame
orchVars == <<opc, oi, oct, result, stdout>>

\* the variables of the aggregation maps
countVars == <<fileCounts, dirCounts, visits>>

\* the inputs, fixed during a run
inputVars == <<cfg, items, fault>>

\* the statter goroutines: one per pooled task (line 79-82)
Workers == 1..cfg.parallelTasks

\* the pooled statTask objects
Slots == 1..cfg.parallelTasks

\* the zero statTask
NoTask == [item |-> <<>>, fi |-> NoFi]

\* m[k] of a Go map: the zero value when k is absent
MapGet(m, k) == IF k \in DOMAIN m THEN m[k] ELSE 0

\* m[k] += n of a Go map
MapAdd(m, k, n) ==
    [x \in DOMAIN m \cup {k} |-> IF x = k THEN MapGet(m, k) + n ELSE m[x]]

\* AddAlongChain without the walk up: size is added to start only
AddOnlyStart(dc, start, size) ==
    OnValue(LAMBDA m : OnValue(LAMBDA s : MapAdd(m, s, size), start), dc)

\* AddAlongChain with = for +=: each count along the chain is overwritten
\* with size
RECURSIVE SetAlongChain(_, _, _)
SetAlongChain(dc, start, size) ==
    OnValue(LAMBDA m : OnValue(LAMBDA s :
        IF s = DotPath \/ s = RootPath
        THEN [x \in DOMAIN m \cup {s} |-> IF x = s THEN size ELSE m[x]]
        ELSE SetAlongChain(
                 [x \in DOMAIN m \cup {s} |-> IF x = s THEN size ELSE m[x]],
                 Dir(s), size),
        start), dc)

\* the loop of lines 326-332 and 340-346: add size to dc[start] and to every
\* path.Dir above it, until "." or "/" has been added to
RECURSIVE AddAlongChain(_, _, _)
AddAlongChain(dc, start, size) ==
    OnValue(LAMBDA m : OnValue(LAMBDA s :
        IF s = DotPath \/ s = RootPath
        THEN MapAdd(m, s, size)
        ELSE AddAlongChain(MapAdd(m, s, size), Dir(s), size),
        start), dc)

\* (n + blockSize - 1) / blockSize
bsit(n) == (n + cfg.blockSize - 1) \div cfg.blockSize

\* the paths DUDU seeds: "." when no item was given (lines 84-108)
SeedItems == IF items = <<>> THEN <<DotPath>> ELSE items

\* the configs parseArgs builds (lines 180-275): the options set verbosity,
\* blockSize and parallelTasks
Configs ==
    [verbosity : {0, 1},
     blockSize : {DefaultBlockSize},
     parallelTasks : 1..MaxParallelTasks,
     readdirBuffer : {ReaddirBuffer},
     messageBuffer : {MessageBuffer},
     errBuffer : {ErrBuffer}]

\* the state DUDU has built at line 83, for a config of the set configs
InitWith(configs) ==
    /\ cfg \in configs
    /\ items \in ItemLists
    /\ fault \in Faults
    /\ fileCounts = <<>>
    /\ dirCounts = <<>>
    /\ msgs = <<>>
    /\ msgsClosed = FALSE
    /\ msgsDone = FALSE
    /\ errs = <<>>
    /\ errsClosed = FALSE
    /\ errsDone = FALSE
    /\ errCount = 0
    /\ wg = 0
    /\ statTasks = <<>>
    /\ freeStatTasks = [i \in 1..cfg.parallelTasks |-> i]
    /\ slot = [s \in 1..cfg.parallelTasks |-> NoTask]
    /\ wpc = [w \in 1..cfg.parallelTasks |-> "top"]
    /\ localTasks = [w \in 1..cfg.parallelTasks |-> <<>>]
    /\ wct = [w \in 1..cfg.parallelTasks |-> 0]
    /\ witem = [w \in 1..cfg.parallelTasks |-> <<>>]
    /\ wfi = [w \in 1..cfg.parallelTasks |-> NoFi]
    /\ subfis = [w \in 1..cfg.parallelTasks |-> <<>>]
    /\ rderr = [w \in 1..cfg.parallelTasks |-> "nil"]
    /\ rdpos = [w \in 1..cfg.parallelTasks |-> 0]
    /\ opc = "seed"
    /\ oi = 1
    /\ oct = 0
    /\ result = [kind |-> "none", count |-> 0]
    /\ stdout = <<>>
    /\ printed = [msgs |-> 0, errs |-> 0]
    /\ errsSent = 0
    /\ msgsSent = 0
    /\ visits = <<>>
    /\ created = 0
    /\ completed = 0
    /\ touched = FALSE
    /\ panicked = FALSE

Init == InitWith(Configs)

(* ------------------------------ channels ------------------------------- *)

\* how many times x occurs in the sequence q
Occurs(q, x) == Cardinality({i \in 1..Len(q) : q[i] = x})

\* in how many places the pooled statTask s is held: the free pool, the work
\* queue, a statter's ct or fct, DUDU's ct
Holders(s) ==
    Occurs(freeStatTasks, s) + Occurs(statTasks, s)
    + Cardinality({w \in Workers : wct[w] = s})
    + (IF oct = s THEN 1 ELSE 0)

\* what a sink channel carries: the string sent, and with it the number of
\* its send on that channel (history)
Sent(text, n) == [text |-> text, arrival |-> n]

\* the string fmtErr(pth, err) builds, with the line of its caller: never ""
fmtErr(pth, line) == [pth |-> pth, at |-> line]

\* the string fmt.Sprintf("Statting %s", item) builds: never ""
Statting(item) == [statting |-> item]

(* ------------------------------- statter ------------------------------- *)

\* where a statter goes once it has its item and fi (line 320)
AfterObtain == IF cfg.verbosity > 0 THEN "msg" ELSE "agg"

\* where a statter goes after scheduling a child, with rest still to schedule
\* and err the error of the Readdir that returned them (lines 358, 373-380)
AfterChild(rest, err) ==
    IF rest # <<>> THEN "add"
    ELSE IF err = "nil" THEN "read"
    ELSE IF err = "EOF" THEN "done"
    ELSE "errRead"

\* lines 300-309, case fct := <-freeStatTasks: the last local task is popped,
\* copied into a free pooled task
WLocalAcquire(w) ==
    /\ ~panicked
    /\ wpc[w] = "top"
    /\ localTasks[w] # <<>>
    /\ freeStatTasks # <<>>
    /\ LET i == Len(localTasks[w])
           ct == localTasks[w][i]
           fct == Head(freeStatTasks)
       IN  /\ localTasks' = [localTasks EXCEPT ![w] = SubSeq(@, 1, i - 1)]
           /\ freeStatTasks' = Tail(freeStatTasks)
           /\ wct' = [wct EXCEPT ![w] = fct]
           /\ slot' = [slot EXCEPT ![fct] = ct]
    /\ wpc' = [wpc EXCEPT ![w] = "handoff"]
    /\ UNCHANGED <<statTasks, witem, wfi, subfis, rderr, rdpos, wg, created, completed,
                   panicked, inputVars, sinkVars, orchVars, countVars>>
    /\ touched' = (touched \/ Holders(wct[w])' # 1)

\* line 308-309: statTasks <- fct; continue
WLocalHandoff(w) ==
    /\ ~panicked
    /\ wpc[w] = "handoff"
    /\ Len(statTasks) < cfg.parallelTasks
    /\ statTasks' = Append(statTasks, wct[w])
    /\ wct' = [wct EXCEPT ![w] = 0]
    /\ wpc' = [wpc EXCEPT ![w] = "top"]
    /\ UNCHANGED <<freeStatTasks, slot, localTasks, witem, wfi, subfis, rderr,
                   rdpos, wg, created, completed, touched, panicked, inputVars, sinkVars,
                   orchVars, countVars>>

\* WLocalTake from the wrong end: the oldest local task is taken
WLocalTakeOldest(w) ==
    /\ ~panicked
    /\ wpc[w] = "top"
    /\ localTasks[w] # <<>>
    /\ freeStatTasks = <<>>
    /\ LET ct == Head(localTasks[w])
       IN  /\ localTasks' = [localTasks EXCEPT ![w] = Tail(@)]
           /\ witem' = [witem EXCEPT ![w] = ct.item]
           /\ wfi' = [wfi EXCEPT ![w] = ct.fi]
    /\ wpc' = [wpc EXCEPT ![w] = AfterObtain]
    /\ UNCHANGED <<statTasks, freeStatTasks, slot, wct, subfis, rderr, rdpos,
                   wg, created, completed, touched, panicked, inputVars,
                   sinkVars, orchVars, countVars>>

\* lines 300-303, 310-312, the select's default: no pooled task is free, the
\* statter keeps the popped task for itself
WLocalTake(w) ==
    /\ ~panicked
    /\ wpc[w] = "top"
    /\ localTasks[w] # <<>>
    /\ freeStatTasks = <<>>
    /\ LET i == Len(localTasks[w])
           ct == localTasks[w][i]
       IN  /\ localTasks' = [localTasks EXCEPT ![w] = SubSeq(@, 1, i - 1)]
           /\ witem' = [witem EXCEPT ![w] = ct.item]
           /\ wfi' = [wfi EXCEPT ![w] = ct.fi]
    /\ wpc' = [wpc EXCEPT ![w] = AfterObtain]
    /\ UNCHANGED <<statTasks, freeStatTasks, slot, wct, subfis, rderr, rdpos,
                   wg, created, completed, touched, panicked, inputVars, sinkVars,
                   orchVars, countVars>>

\* lines 314-317: ct := <-statTasks; item = ct.item; fi = ct.fi
WReceive(w) ==
    /\ ~panicked
    /\ wpc[w] = "top"
    /\ localTasks[w] = <<>>
    /\ statTasks # <<>>
    /\ LET ct == Head(statTasks)
       IN  /\ statTasks' = Tail(statTasks)
           /\ wct' = [wct EXCEPT ![w] = ct]
           /\ witem' = [witem EXCEPT ![w] = slot[ct].item]
           /\ wfi' = [wfi EXCEPT ![w] = slot[ct].fi]
    /\ wpc' = [wpc EXCEPT ![w] = "release"]
    /\ UNCHANGED <<freeStatTasks, slot, localTasks, subfis, rderr, rdpos, wg,
                   created, completed, panicked, inputVars, sinkVars, orchVars, countVars>>
    /\ touched' = (touched \/ Holders(wct[w])' # 1)

\* WRelease without the send: the pooled task is dropped, not returned
WReleaseLeak(w) ==
    /\ ~panicked
    /\ wpc[w] = "release"
    /\ wct' = [wct EXCEPT ![w] = 0]
    /\ wpc' = [wpc EXCEPT ![w] = AfterObtain]
    /\ UNCHANGED <<statTasks, freeStatTasks, slot, localTasks, witem, wfi,
                   subfis, rderr, rdpos, wg, created, completed, touched,
                   panicked, inputVars, sinkVars, orchVars, countVars>>

\* line 318: freeStatTasks <- ct
WRelease(w) ==
    /\ ~panicked
    /\ wpc[w] = "release"
    /\ Len(freeStatTasks) < cfg.parallelTasks
    /\ freeStatTasks' = Append(freeStatTasks, wct[w])
    /\ wct' = [wct EXCEPT ![w] = 0]
    /\ wpc' = [wpc EXCEPT ![w] = AfterObtain]
    /\ UNCHANGED <<statTasks, slot, localTasks, witem, wfi, subfis, rderr,
                   rdpos, wg, created, completed, touched, panicked, inputVars, sinkVars,
                   orchVars, countVars>>

\* lines 320-322: msgs <- "Statting item"; a send on a closed channel panics
WVerbose(w) ==
    /\ ~panicked
    /\ wpc[w] = "msg"
    /\ msgsClosed \/ Len(msgs) < cfg.messageBuffer
    /\ msgs' = IF msgsClosed THEN msgs ELSE Append(msgs, Sent(Statting(witem[w]), msgsSent + 1))
    /\ msgsSent' = IF msgsClosed THEN msgsSent ELSE msgsSent + 1
    /\ panicked' = msgsClosed
    /\ wpc' = [wpc EXCEPT ![w] = "agg"]
    /\ UNCHANGED <<msgsClosed, msgsDone, errs, errsClosed, errsDone, errCount,
                   printed, errsSent, statTasks, freeStatTasks, slot,
                   localTasks, wct, witem, wfi, subfis, rderr, rdpos, wg,
                   created, completed, touched, inputVars, orchVars, countVars>>

\* lines 323-333: a directory's size is added to its own count and to the
\* count of every directory above it, under dirCountsLock
WAggregateDir(w) ==
    /\ ~panicked
    /\ wpc[w] = "agg"
    /\ wfi[w].isDir
    /\ dirCounts' = AddAlongChain(dirCounts, witem[w], wfi[w].size)
    /\ visits' = MapAdd(visits, Clean(witem[w]), 1)
    /\ wpc' = [wpc EXCEPT ![w] = "open"]
    /\ UNCHANGED <<fileCounts, statTasks, freeStatTasks, slot, localTasks, wct,
                   witem, wfi, subfis, rderr, rdpos, wg, created, completed, touched,
                   panicked, inputVars, sinkVars, orchVars>>

\* lines 334-337: a file's size is added to its own count, under
\* fileCountsLock
WAggregateFile(w) ==
    /\ ~panicked
    /\ wpc[w] = "agg"
    /\ ~wfi[w].isDir
    /\ fileCounts' = MapAdd(fileCounts, witem[w], wfi[w].size)
    /\ visits' = MapAdd(visits, Clean(witem[w]), 1)
    /\ wpc' = [wpc EXCEPT ![w] = "aggUp"]
    /\ UNCHANGED <<dirCounts, statTasks, freeStatTasks, slot, localTasks, wct,
                   witem, wfi, subfis, rderr, rdpos, wg, created, completed, touched,
                   panicked, inputVars, sinkVars, orchVars>>

\* lines 338-347: the file's size is added to the count of every directory
\* above it, under dirCountsLock
WAggregateUp(w) ==
    /\ ~panicked
    /\ wpc[w] = "aggUp"
    /\ dirCounts' = AddAlongChain(dirCounts, Dir(witem[w]), wfi[w].size)
    /\ wpc' = [wpc EXCEPT ![w] = "done"]
    /\ UNCHANGED <<fileCounts, visits, statTasks, freeStatTasks, slot,
                   localTasks, wct, witem, wfi, subfis, rderr, rdpos, wg,
                   created, completed, touched, panicked, inputVars, sinkVars, orchVars>>

\* lines 349-351: f, err := os.Open(item)
WOpen(w) ==
    /\ ~panicked
    /\ wpc[w] = "open"
    /\ wpc' = [wpc EXCEPT ![w] =
                 IF Clean(witem[w]) \in fault.open THEN "errOpen" ELSE "read"]
    /\ rdpos' = [rdpos EXCEPT ![w] = 0]
    /\ UNCHANGED <<statTasks, freeStatTasks, slot, localTasks, wct, witem, wfi,
                   subfis, rderr, wg, created, completed, touched, panicked, inputVars,
                   sinkVars, orchVars, countVars>>

\* WOpenError without the continue of line 354: the error is reported and the
\* statter goes on to read the directory
WOpenErrorReadsOn(w) ==
    /\ ~panicked
    /\ wpc[w] = "errOpen"
    /\ errsClosed \/ Len(errs) < cfg.errBuffer
    /\ errs' = IF errsClosed THEN errs
               ELSE Append(errs, Sent(fmtErr(witem[w], 352), errsSent + 1))
    /\ errsSent' = IF errsClosed THEN errsSent ELSE errsSent + 1
    /\ UNCHANGED msgsSent
    /\ panicked' = errsClosed
    /\ wpc' = [wpc EXCEPT ![w] = "read"]
    /\ UNCHANGED <<msgs, msgsClosed, msgsDone, errsClosed, errsDone, errCount,
                   printed, statTasks, freeStatTasks, slot, localTasks, wct,
                   witem, wfi, subfis, rderr, rdpos, wg, created, completed,
                   touched, inputVars, orchVars, countVars>>

\* line 352: errs <- fmtErr(item, err); a send on a closed channel panics
WOpenError(w) ==
    /\ ~panicked
    /\ wpc[w] = "errOpen"
    /\ errsClosed \/ Len(errs) < cfg.errBuffer
    /\ errs' = IF errsClosed THEN errs ELSE Append(errs, Sent(fmtErr(witem[w], 352), errsSent + 1))
    /\ errsSent' = IF errsClosed THEN errsSent ELSE errsSent + 1
    /\ UNCHANGED msgsSent
    /\ panicked' = errsClosed
    /\ wpc' = [wpc EXCEPT ![w] = "doneOpen"]
    /\ UNCHANGED <<msgs, msgsClosed, msgsDone, errsClosed, errsDone, errCount,
                   printed, statTasks, freeStatTasks, slot, localTasks, wct,
                   witem, wfi, subfis, rderr, rdpos, wg, created, completed, touched,
                   inputVars, orchVars, countVars>>

\* WOpenErrorDone without wg.Done(): the statter just continues
WOpenErrorContinue(w) ==
    /\ ~panicked
    /\ wpc[w] = "doneOpen"
    /\ wpc' = [wpc EXCEPT ![w] = "top"]
    /\ witem' = [witem EXCEPT ![w] = <<>>]
    /\ wfi' = [wfi EXCEPT ![w] = NoFi]
    /\ UNCHANGED <<statTasks, freeStatTasks, slot, localTasks, wct, subfis,
                   rderr, rdpos, wg, created, completed, touched, panicked,
                   inputVars, sinkVars, orchVars, countVars>>

\* lines 353-354: wg.Done(); continue
WOpenErrorDone(w) ==
    /\ ~panicked
    /\ wpc[w] = "doneOpen"
    /\ wg' = wg - 1
    /\ completed' = completed + 1
    /\ wpc' = [wpc EXCEPT ![w] = "top"]
    /\ witem' = [witem EXCEPT ![w] = <<>>]
    /\ wfi' = [wfi EXCEPT ![w] = NoFi]
    /\ UNCHANGED <<statTasks, freeStatTasks, slot, localTasks, wct, subfis,
                   rderr, rdpos, created, touched, panicked, inputVars,
                   sinkVars, orchVars, countVars>>

\* WReaddir that looks at err first: the entries returned together with an
\* error other than io.EOF are dropped
WReaddirDropsOnError(w) ==
    /\ ~panicked
    /\ wpc[w] = "read"
    /\ LET r == Readdir(witem[w], rdpos[w], cfg.readdirBuffer, fault)
           fis == IF r.err = "EIO" THEN <<>>
                  ELSE [i \in 1..Len(r.names) |->
                          [name |-> r.names[i],
                           fi |-> Lstat(Join(Clean(witem[w]), r.names[i]))]]
       IN  /\ subfis' = [subfis EXCEPT ![w] = fis]
           /\ rderr' = [rderr EXCEPT ![w] = r.err]
           /\ rdpos' = [rdpos EXCEPT ![w] = @ + Len(r.names)]
           /\ wpc' = [wpc EXCEPT ![w] = AfterChild(fis, r.err)]
    /\ UNCHANGED <<statTasks, freeStatTasks, slot, localTasks, wct, witem, wfi,
                   wg, created, completed, touched, panicked, inputVars,
                   sinkVars, orchVars, countVars>>

\* line 357: subfis, err := f.Readdir(cfg.readdirBuffer); each entry comes
\* with the FileInfo of its lstat
WReaddir(w) ==
    /\ ~panicked
    /\ wpc[w] = "read"
    /\ LET r == Readdir(witem[w], rdpos[w], cfg.readdirBuffer, fault)
           fis == [i \in 1..Len(r.names) |->
                     [name |-> r.names[i],
                      fi |-> Lstat(Join(Clean(witem[w]), r.names[i]))]]
       IN  /\ subfis' = [subfis EXCEPT ![w] = fis]
           /\ rderr' = [rderr EXCEPT ![w] = r.err]
           /\ rdpos' = [rdpos EXCEPT ![w] = @ + Len(r.names)]
           /\ wpc' = [wpc EXCEPT ![w] = AfterChild(fis, r.err)]
    /\ UNCHANGED <<statTasks, freeStatTasks, slot, localTasks, wct, witem, wfi,
                   wg, created, completed, touched, panicked, inputVars, sinkVars,
                   orchVars, countVars>>

\* WAdd without wg.Add(1): the child is scheduled unregistered
WAddUnregistered(w) ==
    /\ ~panicked
    /\ wpc[w] = "add"
    /\ created' = created + 1
    /\ wpc' = [wpc EXCEPT ![w] = "sel"]
    /\ UNCHANGED <<statTasks, freeStatTasks, slot, localTasks, wct, witem, wfi,
                   subfis, rderr, rdpos, wg, completed, touched, panicked,
                   inputVars, sinkVars, orchVars, countVars>>

\* lines 358-360: subitem := path.Join(item, subfi.Name()); wg.Add(1)
WAdd(w) ==
    /\ ~panicked
    /\ wpc[w] = "add"
    /\ wg' = wg + 1
    /\ created' = created + 1
    /\ UNCHANGED completed
    /\ wpc' = [wpc EXCEPT ![w] = "sel"]
    /\ UNCHANGED <<statTasks, freeStatTasks, slot, localTasks, wct, witem, wfi,
                   subfis, rderr, rdpos, touched, panicked, inputVars,
                   sinkVars, orchVars, countVars>>

\* the child task of the entry the statter is at (lines 359, 363-364, 367-370)
ChildTask(w) ==
    [item |-> Join(witem[w], Head(subfis[w]).name), fi |-> Head(subfis[w]).fi]

\* lines 361-364, case ct := <-freeStatTasks: the child is written into a
\* free pooled task
WSelectAcquire(w) ==
    /\ ~panicked
    /\ wpc[w] = "sel"
    /\ freeStatTasks # <<>>
    /\ LET ct == Head(freeStatTasks)
       IN  /\ freeStatTasks' = Tail(freeStatTasks)
           /\ wct' = [wct EXCEPT ![w] = ct]
           /\ slot' = [slot EXCEPT ![ct] = ChildTask(w)]
    /\ wpc' = [wpc EXCEPT ![w] = "send"]
    /\ UNCHANGED <<statTasks, localTasks, witem, wfi, subfis, rderr, rdpos, wg,
                   created, completed, panicked, inputVars, sinkVars, orchVars, countVars>>
    /\ touched' = (touched \/ Holders(wct[w])' # 1)

\* WSelectSend that keeps the pooled task: it is sent and stays in the
\* statter's hand
WSelectSendKeeps(w) ==
    /\ ~panicked
    /\ wpc[w] = "send"
    /\ Len(statTasks) < cfg.parallelTasks
    /\ statTasks' = Append(statTasks, wct[w])
    /\ subfis' = [subfis EXCEPT ![w] = Tail(@)]
    /\ wpc' = [wpc EXCEPT ![w] = AfterChild(Tail(subfis[w]), rderr[w])]
    /\ UNCHANGED <<freeStatTasks, slot, localTasks, wct, witem, wfi, rderr,
                   rdpos, wg, created, completed, touched, panicked,
                   inputVars, sinkVars, orchVars, countVars>>

\* line 365: statTasks <- ct
WSelectSend(w) ==
    /\ ~panicked
    /\ wpc[w] = "send"
    /\ Len(statTasks) < cfg.parallelTasks
    /\ statTasks' = Append(statTasks, wct[w])
    /\ wct' = [wct EXCEPT ![w] = 0]
    /\ subfis' = [subfis EXCEPT ![w] = Tail(@)]
    /\ wpc' = [wpc EXCEPT ![w] = AfterChild(Tail(subfis[w]), rderr[w])]
    /\ UNCHANGED <<freeStatTasks, slot, localTasks, witem, wfi, rderr, rdpos,
                   wg, created, completed, touched, panicked, inputVars, sinkVars,
                   orchVars, countVars>>

\* WSelectLocal as a blocking acquire: with no pooled task free the statter
\* waits for one instead of keeping the child on localTasks
WSelectWait(w) == WSelectAcquire(w)

\* lines 366-370, the select's default: the child is appended to localTasks
WSelectLocal(w) ==
    /\ ~panicked
    /\ wpc[w] = "sel"
    /\ freeStatTasks = <<>>
    /\ localTasks' = [localTasks EXCEPT ![w] = Append(@, ChildTask(w))]
    /\ subfis' = [subfis EXCEPT ![w] = Tail(@)]
    /\ wpc' = [wpc EXCEPT ![w] = AfterChild(Tail(subfis[w]), rderr[w])]
    /\ UNCHANGED <<statTasks, freeStatTasks, slot, wct, witem, wfi, rderr,
                   rdpos, wg, created, completed, touched, panicked, inputVars, sinkVars,
                   orchVars, countVars>>

\* WSchedule with lines 363-365 in the wrong order: the pooled task is sent
\* first and written afterwards
WScheduleRacy(w) ==
    \/ /\ ~panicked
       /\ wpc[w] = "sel"
       /\ freeStatTasks # <<>>
       /\ Len(statTasks) < cfg.parallelTasks
       /\ freeStatTasks' = Tail(freeStatTasks)
       /\ statTasks' = Append(statTasks, Head(freeStatTasks))
       /\ wct' = [wct EXCEPT ![w] = Head(freeStatTasks)]
       /\ wpc' = [wpc EXCEPT ![w] = "send"]
       /\ UNCHANGED <<slot, localTasks, witem, wfi, subfis, rderr, rdpos, wg,
                      created, completed, touched, panicked, inputVars,
                      sinkVars, orchVars, countVars>>
    \/ /\ ~panicked
       /\ wpc[w] = "send"
       /\ slot' = [slot EXCEPT ![wct[w]] = ChildTask(w)]
       /\ touched' = (touched \/ Holders(wct[w]) # 1)
       /\ wct' = [wct EXCEPT ![w] = 0]
       /\ subfis' = [subfis EXCEPT ![w] = Tail(@)]
       /\ wpc' = [wpc EXCEPT ![w] = AfterChild(Tail(subfis[w]), rderr[w])]
       /\ UNCHANGED <<statTasks, freeStatTasks, localTasks, witem, wfi, rderr,
                      rdpos, wg, created, completed, panicked, inputVars,
                      sinkVars, orchVars, countVars>>
    \/ WSelectLocal(w)

\* lines 361-371: the select that schedules one child
WSchedule(w) == WSelectAcquire(w) \/ WSelectSend(w) \/ WSelectLocal(w)

\* lines 373-378 with err other than io.EOF: f.Close(); errs <- fmtErr(item,
\* err); break. A send on a closed channel panics
WReadError(w) ==
    /\ ~panicked
    /\ wpc[w] = "errRead"
    /\ errsClosed \/ Len(errs) < cfg.errBuffer
    /\ errs' = IF errsClosed THEN errs ELSE Append(errs, Sent(fmtErr(witem[w], 376), errsSent + 1))
    /\ errsSent' = IF errsClosed THEN errsSent ELSE errsSent + 1
    /\ UNCHANGED msgsSent
    /\ panicked' = errsClosed
    /\ wpc' = [wpc EXCEPT ![w] = "done"]
    /\ UNCHANGED <<msgs, msgsClosed, msgsDone, errsClosed, errsDone, errCount,
                   printed, statTasks, freeStatTasks, slot, localTasks, wct,
                   witem, wfi, subfis, rderr, rdpos, wg, created, completed, touched,
                   inputVars, orchVars, countVars>>

\* line 382: wg.Done(), and the loop starts over with fresh item and fi
WDone(w) ==
    /\ ~panicked
    /\ wpc[w] = "done"
    /\ wg' = wg - 1
    /\ completed' = completed + 1
    /\ wpc' = [wpc EXCEPT ![w] = "top"]
    /\ witem' = [witem EXCEPT ![w] = <<>>]
    /\ wfi' = [wfi EXCEPT ![w] = NoFi]
    /\ subfis' = [subfis EXCEPT ![w] = <<>>]
    /\ rderr' = [rderr EXCEPT ![w] = "nil"]
    /\ rdpos' = [rdpos EXCEPT ![w] = 0]
    /\ UNCHANGED <<statTasks, freeStatTasks, slot, localTasks, wct, created,
                   touched, panicked, inputVars, sinkVars, orchVars, countVars>>

(* ---------------------------- the consumers ---------------------------- *)

\* the variables of the statters and of the pool
workVars == <<statTasks, freeStatTasks, slot, wpc, localTasks, wct, witem, wfi,
              subfis, rderr, rdpos, wg, created, completed, touched>>

\* lines 50-56: msg := <-msgs; a message is never "", it is printed
MsgsConsume ==
    /\ ~panicked
    /\ ~msgsDone
    /\ msgs # <<>>
    /\ msgs' = Tail(msgs)
    /\ printed' = [printed EXCEPT !.msgs = @ + 1]
    /\ UNCHANGED <<msgsClosed, msgsDone, errs, errsClosed, errsDone, errCount,
                   errsSent, msgsSent, panicked, workVars, inputVars, orchVars, countVars>>

\* lines 51-57: the receive on the closed, drained channel yields "": break;
\* close(msgsDone)
MsgsExit ==
    /\ ~panicked
    /\ ~msgsDone
    /\ msgs = <<>>
    /\ msgsClosed
    /\ msgsDone' = TRUE
    /\ UNCHANGED <<msgs, msgsClosed, errs, errsClosed, errsDone, errCount,
                   printed, errsSent, msgsSent, panicked, workVars, inputVars, orchVars,
                   countVars>>

\* lines 64-70: err := <-errs; an error is never "", it is counted and printed
\* (the uint32 counter wraps after 2^32 errors, out of the reach of a tree of
\* a few entries)
ErrsConsume ==
    /\ ~panicked
    /\ ~errsDone
    /\ errs # <<>>
    /\ errs' = Tail(errs)
    /\ errCount' = errCount + 1
    /\ printed' = [printed EXCEPT !.errs = @ + 1]
    /\ UNCHANGED <<msgs, msgsClosed, msgsDone, errsClosed, errsDone, errsSent, msgsSent,
                   panicked, workVars, inputVars, orchVars, countVars>>

\* ErrsExit without the drain: the consumer leaves as soon as the channel is
\* closed, whatever the buffer still holds
ErrsExitUndrained ==
    /\ ~panicked
    /\ ~errsDone
    /\ errsClosed
    /\ errsDone' = TRUE
    /\ UNCHANGED <<msgs, msgsClosed, msgsDone, errs, errsClosed, errCount,
                   printed, errsSent, msgsSent, panicked, workVars, inputVars,
                   orchVars, countVars>>

\* lines 65-72: the receive on the closed, drained channel yields "": break;
\* close(errsDone)
ErrsExit ==
    /\ ~panicked
    /\ ~errsDone
    /\ errs = <<>>
    /\ errsClosed
    /\ errsDone' = TRUE
    /\ UNCHANGED <<msgs, msgsClosed, msgsDone, errs, errsClosed, errCount,
                   printed, errsSent, msgsSent, panicked, workVars, inputVars, orchVars,
                   countVars>>

(* -------------------------------- DUDU --------------------------------- *)

\* the line of the seeding code DUDU runs: lines 85-93 seed "." when no item
\* was given, lines 97-106 seed the items
SeedLine(given, none) == IF items = <<>> THEN none ELSE given

\* the variables of the statters' own frames
frameVars == <<wpc, localTasks, wct, witem, wfi, subfis, rderr, rdpos>>

\* lines 85-87 and 97-100: os.Lstat fails; errs <- fmtErr(item, err); continue
OSeedError ==
    /\ ~panicked
    /\ opc = "seed"
    /\ oi <= Len(SeedItems)
    /\ ~Lstat(SeedItems[oi]).ok
    /\ errsClosed \/ Len(errs) < cfg.errBuffer
    /\ errs' = IF errsClosed THEN errs
               ELSE Append(errs, Sent(fmtErr(SeedItems[oi], SeedLine(99, 87)), errsSent + 1))
    /\ errsSent' = IF errsClosed THEN errsSent ELSE errsSent + 1
    /\ UNCHANGED msgsSent
    /\ panicked' = errsClosed
    /\ oi' = oi + 1
    /\ UNCHANGED <<msgs, msgsClosed, msgsDone, errsClosed, errsDone, errCount,
                   printed, opc, oct, result, stdout, workVars, inputVars,
                   countVars>>

\* lines 89-91 and 102-104: ct := <-freeStatTasks; ct.item = item; ct.fi = fi
OSeedAcquire ==
    /\ ~panicked
    /\ opc = "seed"
    /\ oi <= Len(SeedItems)
    /\ Lstat(SeedItems[oi]).ok
    /\ freeStatTasks # <<>>
    /\ LET ct == Head(freeStatTasks)
       IN  /\ freeStatTasks' = Tail(freeStatTasks)
           /\ oct' = ct
           /\ slot' = [slot EXCEPT ![ct] =
                         [item |-> SeedItems[oi], fi |-> Lstat(SeedItems[oi])]]
    /\ opc' = "add"
    /\ UNCHANGED <<statTasks, frameVars, wg, created, completed, oi, result, stdout,
                   panicked, inputVars, sinkVars, countVars>>
    /\ touched' = (touched \/ Holders(oct)' # 1)

\* OSeedAdd without wg.Add(1): the root task goes to the work queue
\* unregistered
OSeedAddUnregistered ==
    /\ ~panicked
    /\ opc = "add"
    /\ created' = created + 1
    /\ opc' = "send"
    /\ UNCHANGED <<wg, completed, statTasks, freeStatTasks, slot, frameVars,
                   touched, oi, oct, result, stdout, panicked, inputVars,
                   sinkVars, countVars>>

\* lines 92 and 105: wg.Add(1)
OSeedAdd ==
    /\ ~panicked
    /\ opc = "add"
    /\ wg' = wg + 1
    /\ created' = created + 1
    /\ UNCHANGED completed
    /\ opc' = "send"
    /\ UNCHANGED <<statTasks, freeStatTasks, slot, frameVars, touched, oi, oct,
                   result, stdout, panicked, inputVars, sinkVars, countVars>>

\* lines 93 and 106: statTasks <- ct
OSeedSend ==
    /\ ~panicked
    /\ opc = "send"
    /\ Len(statTasks) < cfg.parallelTasks
    /\ statTasks' = Append(statTasks, oct)
    /\ oct' = 0
    /\ oi' = oi + 1
    /\ opc' = "seed"
    /\ UNCHANGED <<freeStatTasks, slot, frameVars, wg, created, completed, touched, result,
                   stdout, panicked, inputVars, sinkVars, countVars>>

\* line 110: wg.Wait() returns when the counter is zero
OWait ==
    /\ ~panicked
    /\ opc = "seed"
    /\ oi > Len(SeedItems)
    /\ wg = 0
    /\ opc' = "closeMsgs"
    /\ UNCHANGED <<oi, oct, result, stdout, panicked, workVars, inputVars,
                   sinkVars, countVars>>

\* line 112: close(msgs)
OCloseMsgs ==
    /\ ~panicked
    /\ opc = "closeMsgs"
    /\ msgsClosed' = TRUE
    /\ opc' = "msgsDone"
    /\ UNCHANGED <<msgs, msgsDone, errs, errsClosed, errsDone, errCount,
                   printed, errsSent, msgsSent, oi, oct, result, stdout, panicked,
                   workVars, inputVars, countVars>>

\* line 113: <-msgsDone
OMsgsDone ==
    /\ ~panicked
    /\ opc = "msgsDone"
    /\ msgsDone
    /\ opc' = "closeErrs"
    /\ UNCHANGED <<oi, oct, result, stdout, panicked, workVars, inputVars,
                   sinkVars, countVars>>

\* line 114: close(errs)
OCloseErrs ==
    /\ ~panicked
    /\ opc = "closeErrs"
    /\ errsClosed' = TRUE
    /\ opc' = "errsDone"
    /\ UNCHANGED <<msgs, msgsClosed, msgsDone, errs, errsDone, errCount,
                   printed, errsSent, msgsSent, oi, oct, result, stdout, panicked,
                   workVars, inputVars, countVars>>

\* line 115: <-errsDone
OErrsDone ==
    /\ ~panicked
    /\ opc = "errsDone"
    /\ errsDone
    /\ opc' = "output"
    /\ oi' = 1
    /\ UNCHANGED <<oct, result, stdout, panicked, workVars, inputVars,
                   sinkVars, countVars>>

\* one printed line: fmt.Printf("%d\t%s\n", bsit(n), item)
Line(n, item) == [blocks |-> bsit(n), item |-> item]

\* the lines printed for each path of the sequence ps, from the map m
LinesOf(ps, m) == [i \in 1..Len(ps) |-> Line(MapGet(m, ps[i]), ps[i])]

\* lines 140-143: the prefix of the paths below item
PrefixOf(item) ==
    IF item[Len(item)] # Slash THEN item \o <<Slash>> ELSE item

\* lines 121-131: no item was given: every directory count, in reverse order
OOutputAll ==
    /\ ~panicked
    /\ opc = "output"
    /\ items = <<>>
    /\ stdout' = stdout \o LinesOf(SortReverse(DOMAIN dirCounts), dirCounts)
    /\ opc' = "result"
    /\ UNCHANGED <<oi, oct, result, panicked, workVars, inputVars, sinkVars,
                   countVars>>

\* lines 133-137: os.Lstat(item) fails again: errs <- fmtErr(item, err), on
\* the channel line 114 closed; a send on a closed channel panics
OOutputError ==
    /\ ~panicked
    /\ opc = "output"
    /\ items # <<>>
    /\ oi <= Len(items)
    /\ ~Lstat(items[oi]).ok
    /\ errsClosed \/ Len(errs) < cfg.errBuffer
    /\ errs' = IF errsClosed THEN errs
               ELSE Append(errs, Sent(fmtErr(items[oi], 136), errsSent + 1))
    /\ errsSent' = IF errsClosed THEN errsSent ELSE errsSent + 1
    /\ UNCHANGED msgsSent
    /\ panicked' = errsClosed
    /\ oi' = oi + 1
    /\ UNCHANGED <<msgs, msgsClosed, msgsDone, errsClosed, errsDone, errCount,
                   printed, opc, oct, result, stdout, workVars, inputVars,
                   countVars>>

\* lines 133-160: the lines of one item: for a directory the counts of the
\* directories below it in reverse order, then its own; for a file its count
OOutputItem ==
    /\ ~panicked
    /\ opc = "output"
    /\ items # <<>>
    /\ oi <= Len(items)
    /\ Lstat(items[oi]).ok
    /\ LET item == items[oi]
           subitems == {k \in DOMAIN dirCounts : HasPrefix(k, PrefixOf(item))}
       IN  stdout' =
             IF Lstat(item).isDir
             THEN stdout \o LinesOf(SortReverse(subitems), dirCounts)
                         \o <<Line(MapGet(dirCounts, item), item)>>
             ELSE Append(stdout, Line(MapGet(fileCounts, item), item))
    /\ oi' = oi + 1
    /\ UNCHANGED <<opc, oct, result, panicked, workVars, inputVars, sinkVars,
                   countVars>>

\* line 161-162: the loop over the items is over
OOutputEnd ==
    /\ ~panicked
    /\ opc = "output"
    /\ items # <<>>
    /\ oi > Len(items)
    /\ opc' = "result"
    /\ UNCHANGED <<oi, oct, result, stdout, panicked, workVars, inputVars,
                   sinkVars, countVars>>

\* lines 164-168: the error count is loaded; an error carrying it is returned
\* when it is positive, nil otherwise
OResult ==
    /\ ~panicked
    /\ opc = "result"
    /\ result' = IF errCount > 0
                 THEN [kind |-> "error", count |-> errCount]
                 ELSE [kind |-> "nil", count |-> 0]
    /\ opc' = "returned"
    /\ UNCHANGED <<oi, oct, stdout, panicked, workVars, inputVars, sinkVars,
                   countVars>>

\* one step of DUDU after its construction (lines 84-168)
DUDU ==
    \/ OSeedError \/ OSeedAcquire \/ OSeedAdd \/ OSeedSend \/ OWait
    \/ OCloseMsgs \/ OMsgsDone \/ OCloseErrs \/ OErrsDone
    \/ OOutputAll \/ OOutputError \/ OOutputItem \/ OOutputEnd \/ OResult

\* one step of a sink's consumer (lines 49-58, 63-73)
Consumers == MsgsConsume \/ MsgsExit \/ ErrsConsume \/ ErrsExit

\* one step of some statter (lines 295-384)
statter ==
    \/ \E w \in Workers : WLocalAcquire(w)
    \/ \E w \in Workers : WLocalHandoff(w)
    \/ \E w \in Workers : WLocalTake(w)
    \/ \E w \in Workers : WReceive(w)
    \/ \E w \in Workers : WRelease(w)
    \/ \E w \in Workers : WVerbose(w)
    \/ \E w \in Workers : WAggregateDir(w)
    \/ \E w \in Workers : WAggregateFile(w)
    \/ \E w \in Workers : WAggregateUp(w)
    \/ \E w \in Workers : WOpen(w)
    \/ \E w \in Workers : WOpenError(w)
    \/ \E w \in Workers : WOpenErrorDone(w)
    \/ \E w \in Workers : WReaddir(w)
    \/ \E w \in Workers : WAdd(w)
    \/ \E w \in Workers : WSchedule(w)
    \/ \E w \in Workers : WReadError(w)
    \/ \E w \in Workers : WDone(w)

Next ==
    \/ DUDU
    \/ Consumers
    \/ statter

Spec == Init /\ [][Next]_vars

\* the Go scheduler lets a goroutine that can run, run
FairSpec == Spec /\ WF_vars(Next)

\* the configs whose sink channels hold SinkBuffer strings: make(chan string,
\* cfg.messageBuffer) and make(chan string, cfg.errBuffer) of lines 47 and 61
\* with small capacities
SinkConfigs ==
    [verbosity : {0, 1},
     blockSize : {DefaultBlockSize},
     parallelTasks : 1..MaxParallelTasks,
     readdirBuffer : {ReaddirBuffer},
     messageBuffer : {SinkBuffer},
     errBuffer : {SinkBuffer}]

\* the runs with small sink channels
SinkSpec == InitWith(SinkConfigs) /\ [][Next]_vars

(* ------------------------- what the tree holds ------------------------- *)

\* the sum of the sizes of the entries of S
RECURSIVE SumSizes(_)
SumSizes(S) ==
    IF S = {} THEN 0
    ELSE LET q == CHOOSE x \in S : TRUE
         IN  FS[q].size + SumSizes(S \ {q})

\* the names a traversal gets to read from directory q during this run
ReadableNames(q) ==
    IF q \in fault.read THEN Take(FS[q].names, ReadFailsAfter) ELSE FS[q].names

\* the entries a traversal that starts at entry q reaches during this run
RECURSIVE Reach(_)
Reach(q) ==
    {q} \cup
    IF FS[q].isDir /\ q \notin fault.open
    THEN UNION {Reach(Join(q, ReadableNames(q)[i])) :
                  i \in 1..Len(ReadableNames(q))}
    ELSE {}

\* the number of tasks the traversals from the paths ps create during this run
RECURSIVE TasksOf(_)
TasksOf(ps) ==
    IF ps = <<>> THEN 0
    ELSE (IF Lstat(Head(ps)).ok THEN Cardinality(Reach(Clean(Head(ps)))) ELSE 0)
         + TasksOf(Tail(ps))

\* the number of tasks the whole run creates
ExpectedTasks == TasksOf(SeedItems)

\* the sum of f over the statters
RECURSIVE SumOver(_, _)
SumOver(f, W) ==
    IF W = {} THEN 0
    ELSE LET w == CHOOSE x \in W : TRUE
         IN  f[w] + SumOver(f, W \ {w})

\* the tasks statter w has in hand: the task it is processing, and the child
\* it has registered and not yet placed
InHand(w) ==
    IF wpc[w] = "top" THEN 0
    ELSE IF wpc[w] \in {"sel", "send"} THEN 2
    ELSE 1

\* the tasks created and not yet fully processed: in the work queue, on a
\* local list, in a statter's hand, or registered by DUDU and not yet sent
Unfinished ==
    Len(statTasks)
    + SumOver([w \in Workers |-> Len(localTasks[w])], Workers)
    + SumOver([w \in Workers |-> InHand(w)], Workers)
    + (IF opc = "send" THEN 1 ELSE 0)

\* wg.Wait() of line 110 has returned
WaitReturned == opc \notin {"seed", "add", "send"}

\* the run is over: DUDU returned or the process died
Finished == opc = "returned" \/ panicked

\* the paths of ps are clean, and no entry is below two of them
CleanDisjoint(ps) ==
    /\ \A i \in 1..Len(ps) : ps[i] = Clean(ps[i])
    /\ \A i, j \in 1..Len(ps) :
          i # j => Subtree(ps[i]) \cap Subtree(ps[j]) = {}

\* the root tasks DUDU has still to register
PendingRoots ==
    IF opc = "seed" THEN {j \in oi..Len(SeedItems) : Lstat(SeedItems[j]).ok}
    ELSE IF opc = "add"
    THEN {oi} \cup {j \in (oi + 1)..Len(SeedItems) : Lstat(SeedItems[j]).ok}
    ELSE IF opc = "send"
    THEN {j \in (oi + 1)..Len(SeedItems) : Lstat(SeedItems[j]).ok}
    ELSE {}

(* ------------------------------- claims -------------------------------- *)

\* C1: once the traversal of a tree (clean root paths, no entry below two of
\* them) has completed without errors, the count stored for every directory
\* of the traversed tree is its own size plus the sizes of all entries below
\* it, and the count stored for a root file is its size.
C1_AggregatesAreSubtreeSums ==
    (WaitReturned /\ errsSent = 0 /\ CleanDisjoint(SeedItems)) =>
        \A i \in 1..Len(SeedItems) :
            LET r == SeedItems[i]
            IN  IF FS[r].isDir
                THEN \A D \in Subtree(r) :
                        FS[D].isDir =>
                            MapGet(dirCounts, D) = SumSizes(Subtree(D))
                ELSE MapGet(fileCounts, r) = FS[r].size

\* C1 witness: a, whose three entries exceed the two pooled tasks, has been
\* traversed by two statters without errors and counts 31
C1_Witness ==
    /\ opc = "returned"
    /\ items = <<pA>>
    /\ cfg.parallelTasks = 2
    /\ errsSent = 0
    /\ MapGet(dirCounts, pA) = 31
    /\ MapGet(dirCounts, pAD) = 12

\* some task is in the work queue, on a local list or in a statter's hand
StattersHaveTasks ==
    Len(statTasks)
    + SumOver([w \in Workers |-> Len(localTasks[w])], Workers)
    + SumOver([w \in Workers |-> InHand(w)], Workers) > 0

\* Lstat succeeds on every root
RootsExist == \A i \in 1..Len(SeedItems) : Lstat(SeedItems[i]).ok

\* C2: for every tree and number of statters, no state has tasks outstanding
\* with every statter blocked, and under fair scheduling wg.Wait() returns;
\* the run of a tree (every root exists) then goes on to return its result.
C2_RunFinishes ==
    /\ [](StattersHaveTasks => ENABLED statter)
    /\ <>(WaitReturned /\ (RootsExist => opc = "returned"))

\* C2 witness: one statter alone expands a, whose entries exceed the pool,
\* and has children on its local list
C2_Witness ==
    /\ cfg.parallelTasks = 1
    /\ items = <<pA>>
    /\ Len(localTasks[1]) = 2
    /\ freeStatTasks = <<>>

\* C3: the counter of wg is the number of tasks created and not yet fully
\* processed (in the work queue, on a local list, in a hand), and is never
\* negative. A root counts as created from its wg.Add(1).
C3_CounterIsUnfinished == wg = Unfinished /\ wg >= 0

\* C3 witness: four tasks or more are unfinished, in the work queue, on a
\* local list and in a statter's hand
C3_Witness ==
    /\ statTasks # <<>>
    /\ \E w \in Workers : localTasks[w] # <<>>
    /\ \E w \in Workers : wpc[w] \in {"sel", "send"}
    /\ wg >= 4

\* C4 as stated: from the first task on, the counter is zero exactly when
\* every task the run ever creates has completed.
C4_ZeroIffAllCompleted ==
    created > 0 => (wg = 0 <=> completed = ExpectedTasks)

\* C4 amended: once DUDU has registered the last root task, the counter is
\* zero exactly when every task the run ever creates has completed.
C4_ZeroIffAllCompletedAfterSeeding ==
    PendingRoots = {} => (wg = 0 <=> completed = ExpectedTasks)

\* C4 witness: two roots given, all seeded, the counter back at zero after
\* all their tasks
C4_Witness ==
    /\ Len(items) = 2
    /\ PendingRoots = {}
    /\ wg = 0
    /\ completed = 3
    /\ opc = "seed"

\* C5: every created task is processed once, no entry contributes its size
\* twice, and once the traversal is over no reached entry was skipped.
C5_EachEntryOnce ==
    /\ \A q \in DOMAIN visits : visits[q] <= 1
    /\ completed <= created
    /\ WaitReturned =>
          \A i \in 1..Len(SeedItems) :
              Lstat(SeedItems[i]).ok =>
                  \A q \in Reach(Clean(SeedItems[i])) : MapGet(visits, q) = 1

\* C6: the pooled tasks number concurrencyLimit at all times, each is in the
\* free pool, in the work queue or in a hand, and at most concurrencyLimit
\* are borrowed.
C6_PoolIsBounded ==
    LET inHands == {wct[w] : w \in Workers} \cup {oct}
        exist == ({freeStatTasks[i] : i \in 1..Len(freeStatTasks)}
                  \cup {statTasks[i] : i \in 1..Len(statTasks)}
                  \cup inHands) \ {0}
        borrowed == Len(statTasks)
                    + Cardinality({w \in Workers : wct[w] # 0})
                    + (IF oct # 0 THEN 1 ELSE 0)
    IN  /\ Cardinality(exist) = cfg.parallelTasks
        /\ borrowed <= cfg.parallelTasks
        /\ borrowed + Len(freeStatTasks) = cfg.parallelTasks

\* C6 witness: a directory of three entries is expanded with two pooled
\* tasks, both borrowed, and a child on the local list
C6_Witness ==
    /\ cfg.parallelTasks = 2
    /\ freeStatTasks = <<>>
    /\ \E w \in Workers : witem[w] = pA /\ localTasks[w] # <<>>

\* C7: every pooled task has exactly one holder among the free pool, the
\* work queue and the hands, and none was read or written by a thread that
\* had sent it or returned it.
C7_SingleOwner ==
    /\ \A s \in Slots : Holders(s) = 1
    /\ ~touched

\* C7 witness: one pooled task is in a statter's hand for the hand-off of a
\* local task, the other is in the work queue
C7_Witness ==
    /\ cfg.parallelTasks = 2
    /\ \E w \in Workers : wpc[w] = "handoff" /\ wct[w] # 0
    /\ statTasks # <<>>

\* C8: after close(msgs) and close(errs) no thread sends on the channel.
C8_NoSendAfterClose == ~panicked

\* C9: when the stat of a root fails, the error is reported, the root gets
\* no task, the other roots are traversed, and the run returns an error
\* carrying the error count.
C9_FailedRootIsSkipped ==
    (Finished /\ \E i \in 1..Len(SeedItems) : ~Lstat(SeedItems[i]).ok) =>
        /\ opc = "returned"
        /\ result.kind = "error"
        /\ result.count = errsSent
        /\ errsSent >= 1
        /\ created = ExpectedTasks
        /\ completed = ExpectedTasks

\* C10: the run returns an error exactly when an error was reported, and
\* the count it carries is the number of errors reported.
C10_FailureIffErrors ==
    Finished =>
        /\ result.kind = "error" <=> errsSent > 0
        /\ result.kind = "error" => result.count = errsSent
        /\ result.kind # "none"

\* C11: every message and error sent is printed by its consumer, oldest
\* first, before DUDU returns; a consumer exits only once its channel is
\* closed and drained.
C11_SinksDrainInOrder ==
    /\ printed.msgs + Len(msgs) = msgsSent
    /\ printed.errs + Len(errs) = errsSent
    /\ \A i \in 1..Len(msgs) : msgs[i].arrival = printed.msgs + i
    /\ \A i \in 1..Len(errs) : errs[i].arrival = printed.errs + i
    /\ msgsDone => (msgsClosed /\ msgs = <<>>)
    /\ errsDone => (errsClosed /\ errs = <<>>)
    /\ result.kind # "none" =>
          /\ msgsDone /\ errsDone
          /\ printed.msgs = msgsSent /\ printed.errs = errsSent
          /\ errCount = errsSent

\* C11 witness: a verbose run with a failing directory has returned, its
\* messages and its error printed
C11_Witness ==
    /\ opc = "returned"
    /\ printed.msgs >= 3
    /\ printed.errs >= 1

\* how often the entries of S were aggregated, together
RECURSIVE SumVisits(_)
SumVisits(S) ==
    IF S = {} THEN 0
    ELSE LET q == CHOOSE x \in S : TRUE
         IN  MapGet(visits, q) + SumVisits(S \ {q})

\* the roots whose Lstat fails
MissingRoots == {i \in 1..Len(SeedItems) : ~Lstat(SeedItems[i]).ok}

\* for clean roots of which no entry is below two, every directory the
\* traversal reached counts its own size and the sizes of the reached
\* entries below it, and every reached entry was aggregated once
ReachedAreSummed ==
    CleanDisjoint(SeedItems) =>
        \A i \in 1..Len(SeedItems) :
            Lstat(SeedItems[i]).ok =>
                \A D \in Reach(SeedItems[i]) :
                    /\ MapGet(visits, D) = 1
                    /\ FS[D].isDir =>
                          MapGet(dirCounts, D) =
                              SumSizes(Reach(SeedItems[i]) \cap Subtree(D))

\* C12: when os.Open of a directory fails, one error is sent for that task,
\* the directory's size is in its count and in its ancestors', no entry
\* below it gets a task, wg.Done() runs once for it, and the other entries
\* are still traversed and counted.
C12_OpenFailureIsLocal ==
    (WaitReturned /\ fault.open # {}) =>
        /\ errsSent = SumVisits(fault.open) + Cardinality(MissingRoots)
        /\ created = ExpectedTasks
        /\ completed = created
        /\ wg = 0
        /\ ReachedAreSummed
        /\ CleanDisjoint(SeedItems) =>
              \A q \in fault.open : \A c \in Subtree(q) \ {q} :
                  MapGet(visits, c) = 0

\* C12 witness: a was traversed while a/d could not be opened: one error,
\* a/d counts its own 4, a counts 23, a/d/h was never visited
C12_Witness ==
    /\ opc = "returned"
    /\ items = <<pA>>
    /\ fault.open = {pAD}
    /\ errsSent = 1
    /\ MapGet(dirCounts, pAD) = 4
    /\ MapGet(dirCounts, pA) = 23
    /\ MapGet(visits, pAG) = 1
    /\ result = [kind |-> "error", count |-> 1]

\* the entries the traversals from the roots reach during this run
ReachedEntries ==
    UNION {Reach(Clean(SeedItems[i])) :
             i \in {j \in 1..Len(SeedItems) : Lstat(SeedItems[j]).ok}}

\* C13: when Readdir fails with an error other than io.EOF, the entries it
\* returned are all scheduled and processed, one error is sent for the
\* directory, it is read no further, and wg.Done() runs once for it; io.EOF
\* sends no error.
C13_ReadFailureKeepsEntries ==
    WaitReturned =>
        /\ fault.read # {} =>
              /\ errsSent = SumVisits(fault.read) + Cardinality(MissingRoots)
              /\ created = ExpectedTasks
              /\ completed = created
              /\ wg = 0
              /\ ReachedAreSummed
              /\ \A q \in DOMAIN FS \ ReachedEntries : MapGet(visits, q) = 0
        /\ (fault.read = {} /\ fault.open = {}) =>
              errsSent = Cardinality(MissingRoots)

\* C13 witness: reading a failed after a/f: one error, a/f was processed,
\* a/d never read, a counts 17
C13_Witness ==
    /\ opc = "returned"
    /\ items = <<pA>>
    /\ fault.read = {pA}
    /\ errsSent = 1
    /\ MapGet(visits, pAF) = 1
    /\ MapGet(visits, pAD) = 0
    /\ MapGet(dirCounts, pA) = 17
    /\ completed = 2

\* the maps after one statter alone has processed item and all below it,
\* depth first, starting from the maps st: lines 323-347 for the entry, lines
\* 349-380 for its children
RECURSIVE WalkItem(_, _, _)
RECURSIVE WalkNames(_, _, _)
WalkItem(st, item, fi) ==
    LET own == IF fi.isDir
               THEN [fc |-> st.fc,
                     dc |-> AddAlongChain(st.dc, item, fi.size)]
               ELSE [fc |-> MapAdd(st.fc, item, fi.size),
                     dc |-> AddAlongChain(st.dc, Dir(item), fi.size)]
    IN  IF fi.isDir /\ Clean(item) \notin fault.open
        THEN WalkNames(own, item, ReadableNames(Clean(item)))
        ELSE own

WalkNames(st, item, names) ==
    IF names = <<>> THEN st
    ELSE WalkNames(WalkItem(st, Join(item, Head(names)),
                            Lstat(Join(Clean(item), Head(names)))),
                   item, Tail(names))

\* the maps after the roots ps were walked one after the other
RECURSIVE WalkRoots(_, _)
WalkRoots(st, ps) ==
    IF ps = <<>> THEN st
    ELSE WalkRoots(IF Lstat(Head(ps)).ok
                   THEN WalkItem(st, Head(ps), Lstat(Head(ps)))
                   ELSE st,
                   Tail(ps))

\* C14: once the traversal is over, fileCounts and dirCounts are what one
\* statter walking the roots in order would have left, whatever the
\* interleaving, the number of statters and the use of local lists: the final
\* maps are a function of the tree and the roots.
C14_FinalCountsAreDetermined ==
    WaitReturned =>
        LET st == WalkRoots([fc |-> <<>>, dc |-> <<>>], SeedItems)
        IN  fileCounts = st.fc /\ dirCounts = st.dc

\* C14 witness: two statters have traversed the roots a/d and a/f
C14_Witness ==
    /\ opc = "returned"
    /\ cfg.parallelTasks = 2
    /\ items = <<pAD, pAF>>
    /\ MapGet(dirCounts, pA) = 13
    /\ MapGet(dirCounts, pAD) = 12
    /\ MapGet(fileCounts, pAF) = 1

\* the tasks a statter can get at or is working on: in the work queue, on a
\* local list, or the one task a statter has taken
VisibleTasks ==
    Len(statTasks)
    + SumOver([w \in Workers |-> Len(localTasks[w])], Workers)
    + Cardinality({w \in Workers : wpc[w] # "top"})

\* what a step may do to the counter: an increment is by one and places no
\* task; a step that places a task leaves the counter alone; a decrement is
\* by one, by a statter that ends a task with no entry left to register
CounterStep ==
    /\ (wg' > wg) =>
          (/\ wg' = wg + 1
           /\ statTasks' = statTasks
           /\ localTasks' = localTasks)
    /\ (\/ Len(statTasks') > Len(statTasks)
        \/ \E w \in Workers : Len(localTasks'[w]) > Len(localTasks[w])) =>
          (wg' = wg)
    /\ (wg' < wg) =>
          (\E w \in Workers :
              /\ wpc[w] \in {"done", "doneOpen"}
              /\ wpc'[w] = "top"
              /\ subfis[w] = <<>>
              /\ wg' = wg - 1)

\* C15: a task is registered (wg.Add(1)) in a step of its own before the step
\* that places it on the work queue or a local list, so the tasks statters
\* can get at never outnumber the counter; and the counter is decremented
\* only by a statter that has no entry of its directory left to register.
C15_RegisteredBeforeVisible ==
    [](VisibleTasks <= wg) /\ [][CounterStep]_vars

\* C15 witness: a child is registered and not yet placed, while other tasks
\* wait in the work queue: the counter is one ahead
C15_Witness ==
    /\ \E w \in Workers : wpc[w] = "sel" /\ subfis[w] # <<>>
    /\ statTasks # <<>>
    /\ wg = VisibleTasks + 1

\* what statter w does when it starts over with a non-empty local list, and
\* when it hands a local task over
LocalStep(w) ==
    /\ (wpc[w] = "top" /\ localTasks[w] # <<>> /\ wpc'[w] # "top") =>
          LET i == Len(localTasks[w])
              ct == localTasks[w][i]
          IN  /\ localTasks'[w] = SubSeq(localTasks[w], 1, i - 1)
              /\ wg' = wg
              /\ statTasks' = statTasks
              /\ IF freeStatTasks # <<>>
                 THEN /\ wpc'[w] = "handoff"
                      /\ wct'[w] = Head(freeStatTasks)
                      /\ slot'[wct'[w]] = ct
                      /\ witem'[w] = witem[w]
                 ELSE /\ wpc'[w] = AfterObtain
                      /\ witem'[w] = ct.item
                      /\ wfi'[w] = ct.fi
                      /\ wct'[w] = 0
    /\ (wpc[w] = "handoff" /\ wpc'[w] # "handoff") =>
          /\ statTasks' = Append(statTasks, wct[w])
          /\ wpc'[w] = "top"
          /\ wct'[w] = 0
          /\ witem'[w] = witem[w]
          /\ wg' = wg

\* C16: a statter with a non-empty local list pops the task added last; when
\* a pooled task is free the popped task goes to the work queue, the statter
\* does not process it and the counter stays; when none is free the statter
\* processes the popped task itself. It waits in neither case.
C16_LocalListIsPoppedLast ==
    /\ [](\A w \in Workers :
            wpc[w] = "handoff" => Len(statTasks) < cfg.parallelTasks)
    /\ [][\A w \in Workers : LocalStep(w)]_vars

\* C16 witness: a/g, the child a statter kept on its local list, is on its
\* way to the work queue in a pooled task that had become free
C16_Witness ==
    \E w \in Workers :
        /\ wpc[w] = "handoff"
        /\ slot[wct[w]].item = pAG
        /\ localTasks[w] = <<>>
        /\ wg >= 2

\* statter w can only have received its item from the work queue: it is a
\* root, and no root lies above it
FromQueue(w) ==
    /\ \E i \in 1..Len(SeedItems) : SeedItems[i] = witem[w]
    /\ \A j \in 1..Len(SeedItems) :
          Clean(witem[w]) \notin Subtree(SeedItems[j]) \ {Clean(SeedItems[j])}

\* statter w is between obtaining a task and its wg.Done()
Processing(w) ==
    wpc[w] \in {"msg", "agg", "aggUp", "open", "errOpen", "doneOpen", "read",
                "add", "sel", "send", "errRead", "done"}

\* C17: a statter that received its task from the work queue holds the
\* task's pooled statTask while it processes the task, until its wg.Done().
C17_SlotHeldWhileProcessing ==
    \A w \in Workers :
        (FromQueue(w) /\ Processing(w)) =>
            (wct[w] # 0 /\ slot[wct[w]].item = witem[w])

\* one step of statter w
StatterStep(w) ==
    \/ WLocalAcquire(w) \/ WLocalHandoff(w) \/ WLocalTake(w) \/ WReceive(w)
    \/ WRelease(w) \/ WVerbose(w) \/ WAggregateDir(w) \/ WAggregateFile(w)
    \/ WAggregateUp(w) \/ WOpen(w) \/ WOpenError(w) \/ WOpenErrorDone(w)
    \/ WReaddir(w) \/ WAdd(w) \/ WSchedule(w) \/ WReadError(w) \/ WDone(w)

\* C18: a statter can be made to wait only by the receive from the work
\* queue with its local list empty: at every other line it can take its
\* step, whatever the capacities of msgs and errs.
C18_OnlyQueueReceiveBlocks ==
    \A w \in Workers :
        (~panicked /\ ~(wpc[w] = "top" /\ localTasks[w] = <<>>)) =>
            ENABLED StatterStep(w)

\* the pooled statTasks in a thread's hand
InHands ==
    Cardinality({w \in Workers : wct[w] # 0}) + (IF oct # 0 THEN 1 ELSE 0)

\* C19: the pooled statTasks in freeStatTasks, in statTasks and in hands
\* number parallelTasks, so neither channel is ever over its capacity, and
\* a thread at a send on statTasks or on freeStatTasks can always send.
C19_PoolSendsNeverWait ==
    /\ Len(freeStatTasks) + Len(statTasks) + InHands = cfg.parallelTasks
    /\ Len(statTasks) <= cfg.parallelTasks
    /\ Len(freeStatTasks) <= cfg.parallelTasks
    /\ opc = "send" => ENABLED OSeedSend
    /\ \A w \in Workers :
          /\ wpc[w] = "handoff" => ENABLED WLocalHandoff(w)
          /\ wpc[w] = "send" => ENABLED WSelectSend(w)
          /\ wpc[w] = "release" => ENABLED WRelease(w)

\* C19 witness: one pooled task is in the work queue and a statter is about
\* to send the other, which fills the queue
C19_Witness ==
    /\ cfg.parallelTasks = 2
    /\ Len(statTasks) = 1
    /\ freeStatTasks = <<>>
    /\ \E w \in Workers : wpc[w] = "send" /\ wct[w] # 0

\* no entry is below two of the paths ps
Disjoint(ps) ==
    \A i, j \in 1..Len(ps) :
        i # j => Subtree(ps[i]) \cap Subtree(ps[j]) = {}

\* C20: after an error-free traversal, for every directory root, however
\* its path is written, the count stored under the path as given (the key
\* lines 139-157 print for the root) is the root's size plus the sizes of
\* all entries below it.
C20_RootCountUnderGivenPath ==
    (WaitReturned /\ errsSent = 0 /\ Disjoint(SeedItems)) =>
        \A i \in 1..Len(SeedItems) :
            Lstat(SeedItems[i]).isDir =>
                MapGet(dirCounts, SeedItems[i]) =
                    SumSizes(Subtree(SeedItems[i]))

====
